---- MODULE Spec2Model ----
(***************************************************************************)
(* Model of garden's git VCS handler (GitHandler): remote-source           *)
(* synchronisation (ensureRemoteSource / updateRemoteSource) and the       *)
(* remote-source reference parser (parseGitUrl).                           *)
(*                                                                         *)
(* Strings are sequences of one-character strings, so that split("#")     *)
(* is computed character by character.  A git command is one step: the    *)
(* step is the resumption of the async function after the awaited         *)
(* subprocess ended, and it applies the subprocess' effect.               *)
(*                                                                         *)
(* git is modelled for a branch reference: a checkout has its branch head *)
(* (refs/heads/<ref>), its remote-tracking ref (refs/remotes/origin/<ref>) *)
(* and the commit in its working tree; clone sets all three to the        *)
(* upstream commit, remote update and fetch move the remote-tracking ref, *)
(* reset --hard moves head and working tree to it; a git command that     *)
(* fails changes nothing.                                                  *)
(***************************************************************************)
EXTENDS Integers, Sequences, FiniteSets, TLC

\* ------------------------------------------------------------------ bounds
\* number of ensureRemoteSource/updateRemoteSource calls made in a run; they
\* may overlap in any way
MaxCalls == 2
\* upstream commits are 1..MaxCommit
MaxCommit == 2
\* longest reference string given to parseGitUrl on its own
MaxLen == 4

Procs == 1..MaxCalls
Commits == 1..MaxCommit

\* ----------------------------------------------------------------- strings
Alphabet == {"u", "#", "m"}

RECURSIVE StringsOfLen(_)
StringsOfLen(n) ==
  IF n = 0 THEN {<<>>}
  ELSE {Append(s, ch) : s \in StringsOfLen(n - 1), ch \in Alphabet}

Strings == UNION {StringsOfLen(n) : n \in 0..MaxLen}

\* the JS value `undefined`, where a string is expected
Undefined == <<"undefined">>

\* String.prototype.split(sep) for a one-character separator
RECURSIVE Split(_, _)
Split(s, sep) ==
  IF s = <<>> THEN <<<<>>>>
  ELSE LET rest == Split(Tail(s), sep) IN
       IF Head(s) = sep THEN <<<<>>>> \o rest
       ELSE <<<<Head(s)>>  \o Head(rest)>> \o Tail(rest)

\* faulty variant: the array is indexed from its end
At_FromEnd(parts, i) ==
  IF i + 1 <= Len(parts) THEN parts[Len(parts) - i] ELSE Undefined
\* parts[i] of a JS array (0-based), undefined past its end
At(parts, i) == IF i + 1 <= Len(parts) THEN parts[i + 1] ELSE Undefined

\* JS falsiness of a string-or-undefined value
Falsy(v) == v = Undefined \/ v = <<>>

NoError == [kind |-> "none", repositoryUrl |-> <<>>, message |-> <<>>]

\* faulty variant: only a missing separator is noticed
hashMissing_UndefinedOnly(parsed) == parsed.hash = Undefined
hashMissing(parsed) == Falsy(parsed.hash)

parseGitUrl(url) ==
  LET parts == Split(url, "#")
      parsed == [repositoryUrl |-> At(parts, 0), hash |-> At(parts, 1)]
  IN IF hashMissing(parsed)
     THEN [threw |-> TRUE, parsed |-> parsed,
           error |-> [kind |-> "ConfigurationError", repositoryUrl |-> url,
                      message |-> <<"Repository URLs must contain a hash part">>]]
     ELSE [threw |-> FALSE, parsed |-> parsed, error |-> NoError]

\* a ref list is a sequence of lines, a line the sequence of its tab-separated
\* fields; commit ids are numbers and 0 is `undefined`
undefinedCommitId == 0
getCommitIdFromRefList(refList) ==
  IF refList = <<>> THEN undefinedCommitId ELSE refList[1][1]

\* ------------------------------------------------------------------- paths
join(a, b) == a \o b
gardenDirPath == <<".garden">>
getRemoteSourcesDirname(sourceType) == <<"sources", sourceType>>
hashRepoUrl(url) == <<"sha256">> \o url
getRemoteSourceRelPath(name, url, sourceType) ==
  join(getRemoteSourcesDirname(sourceType), <<<<name, "--", hashRepoUrl(url)>>>>)
absPathOf(name, url, sourceType) ==
  join(gardenDirPath, getRemoteSourceRelPath(name, url, sourceType))

\* ------------------------------------------------------- inputs of the calls
GoodUrl == <<"u", "#", "m">>
BareUrl == <<"u">>
Urls == {GoodUrl, BareUrl}
Names == {"n"}
SourceTypes == {"module"}
Paths == {absPathOf(n, u, t) : n \in Names, u \in Urls, t \in SourceTypes}
\* the upstream refs the parseable references point to
RemoteRefs ==
  {<<parseGitUrl(u).parsed.repositoryUrl, parseGitUrl(u).parsed.hash>> :
     u \in {v \in Urls : ~parseGitUrl(v).threw}}

VARIABLES
  exists,       \* [Paths -> BOOLEAN]: pathExists(absPath)
  checkout,     \* [Paths -> [local, tracking, tree]]: refs/heads/<ref>,
                \* refs/remotes/origin/<ref> and the commit in the working tree
  sourcesDirs,  \* the remote-sources directories ensureDir has made
  remote,       \* [RemoteRefs -> Commits]: the upstream commit of each ref
  call,         \* [Procs -> record]: the pending async calls
  scen,         \* history: runs of consecutive, undisturbed update calls
  parseIn,      \* the string last given to parseGitUrl on its own
  parseOut,     \* what parseGitUrl made of it
  repo,         \* what the directory given to getFiles is in: no repository,
                \* a repository without commits, or one with commits
  wt,           \* [Files -> record]: the files under that directory
  gf,           \* the pending getFiles call
  prev,         \* history: what the previous getFiles call returned
  epoch,        \* history: number of changes made to the files so far
  task,         \* the pending runHelmTask / runContainerTask call
  store,        \* [TaskKeys -> result or Absent]: the task-result cache
  puts,         \* history: the result last handed to storeTaskResult, by the
                \* (module, taskName, taskVersion) of the call that did
  cacheGot,     \* what the last look into the cache returned
  logTree,      \* the log tree given to findLogNode
  logMatch,     \* the nodes its predicate holds of
  logOut        \* what findLogNode did and returned

vars == <<exists, checkout, sourcesDirs, remote, call, scen, parseIn, parseOut,
          repo, wt, gf, prev, epoch, task, store, puts, cacheGot,
          logTree, logMatch, logOut>>
taskVars == <<task, store, puts, cacheGot>>
logVars == <<logTree, logMatch, logOut>>
fsVars == <<exists, checkout, sourcesDirs>>
parseVars == <<parseIn, parseOut>>
filesVars == <<repo, wt, gf, prev, epoch>>
syncVars == <<exists, checkout, sourcesDirs, remote, call, scen>>

NoCheckout == [local |-> 0, tracking |-> 0, tree |-> 0]
NoSnapshot == [local |-> 0, tree |-> 0]
NoPath == <<>>

IdleCall ==
  [pc |-> "idle", op |-> "none", name |-> "", url |-> <<>>, sourceType |-> "",
   absPath |-> NoPath, gitCwd |-> NoPath, cmds |-> <<>>, entries |-> <<>>,
   isCloned |-> "unset", remoteCommitId |-> -1, localCommitId |-> -1,
   error |-> NoError, returned |-> NoPath, snap |-> NoSnapshot]

ScenIdle == [active |-> FALSE, baseLocal |-> 0, baseRemote |-> 0, reports |-> <<>>]

\* the paths the handler itself can have made: those of references that parse
ClonablePaths ==
  {absPathOf(n, u, t) : n \in Names, u \in {v \in Urls : ~parseGitUrl(v).threw},
                        t \in SourceTypes}

\* ---------------------------------------------- getFiles: names and paths
\* number of files under the directory given to getFiles
NumFiles == 2
Files == 1..NumFiles

\* a path is a sequence of segments, a segment a sequence of characters
Sep == <<"/">>
TopLevel == <<Sep, <<"r">>>>
Subdirs == {<<>>, <<<<"m">>>>}
ModulePaths == {TopLevel \o d : d \in Subdirs}
NameList ==
  << <<"b", ".", "g", "o">>, <<"a", ".", "m", "d">>,
     <<"c", ".", "g", "o">>, <<"d", ".", "m", "d">> >>
FileName(f) == NameList[f]

isAbsolute(p) == p # <<>> /\ Head(p) = Sep
RECURSIVE normalize(_, _)
normalize(acc, rest) ==
  IF rest = <<>> THEN acc
  ELSE LET seg == Head(rest) IN
       IF seg = <<".">> THEN normalize(acc, Tail(rest))
       ELSE IF seg = <<".", ".">>
            THEN normalize(IF Len(acc) > 1 THEN SubSeq(acc, 1, Len(acc) - 1)
                           ELSE acc, Tail(rest))
            ELSE normalize(Append(acc, seg), Tail(rest))
\* path.resolve(from, to), the process being at the top-level directory
resolve(from, to) ==
  IF isAbsolute(to) THEN normalize(<<>>, to)
  ELSE IF isAbsolute(from) THEN normalize(<<>>, from \o to)
  ELSE normalize(<<>>, TopLevel \o from \o to)

\* "**/*<suffix>" is the one form of pattern given
Glob(suffix) == <<"*", "*", "/", "*">> \o suffix
GoGlob == Glob(<<".", "g", "o">>)
MdGlob == Glob(<<".", "m", "d">>)
TxtGlob == Glob(<<".", "t", "x", "t">>)
NoInclude == Undefined
Includes == {NoInclude, <<GoGlob>>, <<TxtGlob, MdGlob>>}
EndsWith(s, suffix) ==
  /\ Len(suffix) <= Len(s)
  /\ SubSeq(s, Len(s) - Len(suffix) + 1, Len(s)) = suffix
matchGlob(path, pattern) ==
  /\ path # <<>>
  /\ EndsWith(path[Len(path)], SubSeq(pattern, 5, Len(pattern)))
matchGlobs(path, patterns) ==
  \E i \in 1..Len(patterns) : matchGlob(path, patterns[i])

\* the blob id of version v of the content of file f
BlobId(f, v) == <<"sha1", f, v>>
NoHash == <<>>

NoGitError == [code |-> "none"]
IdleGf(path, include) ==
  [pc |-> "idle", path |-> path, include |-> include, gitRoot |-> <<>>,
   lines |-> <<>>, ignored |-> <<>>, modified |-> {}, slots |-> <<>>,
   completed |-> <<>>, hashed |-> {}, result |-> <<>>, error |-> NoGitError,
   failure |-> "none", e0 |-> 0, e1 |-> 0]
NoPrev == [valid |-> FALSE, epoch |-> 0, completed |-> <<>>, result |-> <<>>]
CleanFile == [status |-> "clean", ignored |-> FALSE, onDisk |-> TRUE]

\* no getFiles call is made
FilesIdle ==
  /\ repo = "commits"
  /\ wt = [f \in Files |-> CleanFile]
  /\ gf = IdleGf(TopLevel, NoInclude)
  /\ prev = NoPrev
  /\ epoch = 0

\* --------------------------------------------- task runs and their results
\* longest output of a task run
MaxOutput == 4
\* the ceiling of the stored output (scaled down)
MAX_RUN_RESULT_OUTPUT_LENGTH == 2
\* the output of a run: its characters are told apart by their position
Outputs == {[i \in 1..n |-> i] : n \in 0..MaxOutput}
Versions == {"v1", "v2"}
ModuleTypes == {"helm", "container"}
TaskName == "t"
TaskKeys == {<<m, TaskName, v>> : m \in ModuleTypes, v \in Versions}

\* the trailing maxLength characters of str
tailString(str, maxLength, nextLine) ==
  IF Len(str) > maxLength THEN SubSeq(str, Len(str) - maxLength + 1, Len(str))
  ELSE str

Absent == [absent |-> TRUE]
NoGet == [asked |-> FALSE, key |-> <<>>, value |-> Absent]
IdleTask(module) ==
  [pc |-> "idle", module |-> module, taskVersion |-> "", res |-> Absent,
   result |-> Absent, run |-> "none", stored |-> "none", storeCalls |-> 0]

\* no task is run
TasksIdle ==
  /\ task = IdleTask("helm")
  /\ store = [k \in TaskKeys |-> Absent]
  /\ puts = [k \in TaskKeys |-> Absent]
  /\ cacheGot = NoGet

\* ----------------------------------------------------------- the log tree
\* number of nodes below the node given to findLogNode
MaxNodes == 4
LogNodes == 1..MaxNodes
RootNode == 0
NoNode == -1
NoLogOut == [done |-> FALSE, found |-> NoNode, calls |-> <<>>]

\* findLogNode is not called
LogIdle ==
  /\ logTree = [n \in LogNodes |-> RootNode]
  /\ logMatch = {}
  /\ logOut = NoLogOut

\* the cache directory as earlier runs of the handler can have left it
Init ==
  /\ exists \in [Paths -> BOOLEAN]
  /\ \A p \in Paths \ ClonablePaths : ~exists[p]
  /\ checkout = [p \in Paths |->
                   IF exists[p] THEN [local |-> 1, tracking |-> 1, tree |-> 1]
                   ELSE NoCheckout]
  /\ sourcesDirs = {}
  /\ remote = [r \in RemoteRefs |-> 1]
  /\ call = [c \in Procs |-> IdleCall]
  /\ scen = [p \in Paths |-> ScenIdle]
  /\ parseIn = <<>>
  /\ parseOut = parseGitUrl(<<>>)
  /\ FilesIdle
  /\ TasksIdle
  /\ LogIdle

\* ----------------------------------------------------------------- helpers
Begun(d) == call[d].pc # "idle"
\* the call's promise has just settled / the caller has taken the outcome
Finished(d) == call[d].pc \in {"resolved", "rejected"}
Over(d) == call[d].pc = "over"
Pending(d) == Begun(d) /\ ~Finished(d) /\ ~Over(d)
\* the continuation of a settled promise runs before any other callback
NoneSettling == \A d \in Procs : ~Finished(d)
AtStage(c, stage) == call[c].pc = stage /\ NoneSettling
OthersPending(c, path) ==
  \E d \in Procs \ {c} : Pending(d) /\ call[d].absPath = path

\* the upstream ref a parseable reference points to
RefOf(url) == <<parseGitUrl(url).parsed.repositoryUrl, parseGitUrl(url).parsed.hash>>

\* log.info(...) makes an entry; setState/setSuccess/setError act on it
LogInfo(entries, section, msg) ==
  Append(entries, [section |-> section, msg |-> msg, status |-> "active"])
SetLast(entries, msg, status) ==
  [entries EXCEPT ![Len(entries)] = [@ EXCEPT !.msg = msg, !.status = status]]
LastEntry(entries) == entries[Len(entries)]

\* the git subprocess calls, as the argument lists the code builds
GitCmd(cmd, args, cwd, ok) == [cmd |-> cmd, args |-> args, cwd |-> cwd, ok |-> ok]
CountCmd(cmds, cmd) == Cardinality({i \in 1..Len(cmds) : cmds[i].cmd = cmd})

RuntimeError(url, cause) ==
  [kind |-> "RuntimeError", repositoryUrl |-> url, message |-> cause]
ExecError(cause) == [kind |-> "ExecError", repositoryUrl |-> <<>>, message |-> cause]
GitFailure(cmd) == <<"git", cmd, "failed">>

\* faulty variant: the existence check is ignored
shouldClone_Always(isCloned) == TRUE
shouldClone(isCloned) == ~isCloned

\* faulty variants: the comparison of line 177 always takes one branch
commitsDiffer_Never(localCommitId, remoteCommitId) == FALSE
commitsDiffer_Always(localCommitId, remoteCommitId) == TRUE
commitsDiffer(localCommitId, remoteCommitId) == localCommitId # remoteCommitId

\* ---------------------------------------------------- history bookkeeping
Report(rec, co) ==
  [msg |-> LastEntry(rec.entries).msg,
   cmds |-> [i \in 1..Len(rec.cmds) |-> rec.cmds[i].cmd],
   localAfter |-> co.local]

\* scen after the call with final record rec ended, co its checkout then
ScenOnFinish(rec, co) ==
  IF rec.op = "update" /\ rec.gitCwd \in Paths /\ scen[rec.gitCwd].active
  THEN [scen EXCEPT ![rec.gitCwd] =
          IF rec.pc = "resolved" /\ Len(@.reports) < 2
          THEN [@ EXCEPT !.reports = Append(@, Report(rec, co))]
          ELSE ScenIdle]
  ELSE scen

\* scen when an update call begins on `path`
ScenOnBeginUpdate(c, path, url) ==
  [scen EXCEPT ![path] =
     IF OthersPending(c, path) THEN ScenIdle
     ELSE IF @.active /\ Len(@.reports) = 1 THEN @
     ELSE IF exists[path]
          THEN [active |-> TRUE, baseLocal |-> checkout[path].local,
                baseRemote |-> remote[RefOf(url)], reports |-> <<>>]
          ELSE ScenIdle]

\* ------------------------------------------------------ ensureRemoteSource
\* call c is the c-th call to begin
FreeSlot(c) == NoneSettling /\ ~Begun(c) /\ \A d \in Procs : d < c => Begun(d)

\* faulty variant: updateRemoteSource goes to its git calls without ensure
EnterEnsure_Skip(rec) ==
  IF rec.op = "update"
  THEN [rec EXCEPT !.pc = "remoteUpdate",
                   !.absPath = absPathOf(rec.name, rec.url, rec.sourceType),
                   !.entries = LogInfo(@, rec.name, <<"Getting remote state">>)]
  ELSE [rec EXCEPT !.pc = "ensureDir",
                   !.absPath = absPathOf(rec.name, rec.url, rec.sourceType)]
\* ensureRemoteSource up to `await ensureDir(remoteSourcesPath)`
EnterEnsure(rec) ==
  [rec EXCEPT !.pc = "ensureDir",
              !.absPath = absPathOf(rec.name, rec.url, rec.sourceType)]

BeginEnsure(c) ==
  \E name \in Names, url \in Urls, sourceType \in SourceTypes :
    LET path == absPathOf(name, url, sourceType) IN
    /\ FreeSlot(c)
    /\ call' = [call EXCEPT ![c] =
                  EnterEnsure([IdleCall EXCEPT !.op = "ensure", !.name = name,
                                 !.url = url, !.sourceType = sourceType])]
    /\ scen' = [scen EXCEPT ![path] = ScenIdle]
    /\ UNCHANGED <<fsVars, remote, parseVars, filesVars, taskVars, logVars>>

EnsureDirDone(c) ==
  /\ AtStage(c, "ensureDir")
  /\ sourcesDirs' = sourcesDirs \cup
       {join(gardenDirPath, getRemoteSourcesDirname(call[c].sourceType))}
  /\ call' = [call EXCEPT ![c] = [@ EXCEPT !.pc = "pathExists"]]
  /\ UNCHANGED <<exists, checkout, remote, scen, parseVars, filesVars, taskVars, logVars>>

\* what follows `return absPath` of ensureRemoteSource: the call is over, or
\* updateRemoteSource goes on to `git remote update` (lines 171-172)
AfterEnsure(rec, co) ==
  IF rec.op = "ensure"
  THEN [rec EXCEPT !.pc = "resolved", !.returned = rec.absPath]
  ELSE [rec EXCEPT !.pc = "remoteUpdate", !.returned = rec.absPath,
                   !.snap = [local |-> co.local, tree |-> co.tree],
                   !.entries = LogInfo(@, rec.name, <<"Getting remote state">>)]

Finish(c, rec, co) ==
  /\ call' = [call EXCEPT ![c] = rec]
  /\ scen' = IF rec.pc \in {"resolved", "rejected"} THEN ScenOnFinish(rec, co) ELSE scen

PathExistsDone(c) ==
  LET rec0 == call[c]
      isCloned == exists[rec0.absPath]
      rec1 == [rec0 EXCEPT !.isCloned = IF isCloned THEN "true" ELSE "false"]
      rec2 == [rec1 EXCEPT !.entries = LogInfo(@, rec0.name, <<"Fetching from ">> \o rec0.url)]
      p == parseGitUrl(rec0.url)
  IN
  /\ AtStage(c, "pathExists")
  /\ IF shouldClone(isCloned)
     THEN IF p.threw
          THEN Finish(c, [rec2 EXCEPT !.pc = "rejected", !.error = p.error],
                      checkout[rec0.absPath])
          ELSE Finish(c, [rec2 EXCEPT !.pc = "clone"], checkout[rec0.absPath])
     ELSE Finish(c, AfterEnsure(rec1, checkout[rec0.absPath]), checkout[rec0.absPath])
  /\ UNCHANGED <<fsVars, remote, parseVars, filesVars, taskVars, logVars>>

CloneCmd(rec, ok) ==
  LET p == parseGitUrl(rec.url).parsed IN
  GitCmd("clone", <<"--depth=1", <<"--branch=", p.hash>>, p.repositoryUrl, rec.absPath>>,
         join(gardenDirPath, getRemoteSourcesDirname(rec.sourceType)), ok)

\* git clone ended with exit code 0: the checkout is there, at the upstream commit
CloneOk(c) ==
  LET rec0 == call[c]
      co == [local |-> remote[RefOf(rec0.url)], tracking |-> remote[RefOf(rec0.url)],
             tree |-> remote[RefOf(rec0.url)]]
      rec1 == [rec0 EXCEPT !.cmds = Append(@, CloneCmd(rec0, TRUE)),
                           !.entries = SetLast(@, LastEntry(@).msg, "success")]
  IN
  /\ AtStage(c, "clone")
  /\ ~exists[rec0.absPath]     \* git refuses a destination that is there
  /\ exists' = [exists EXCEPT ![rec0.absPath] = TRUE]
  /\ checkout' = [checkout EXCEPT ![rec0.absPath] = co]
  /\ Finish(c, AfterEnsure(rec1, co), co)
  /\ UNCHANGED <<sourcesDirs, remote, parseVars, filesVars, taskVars, logVars>>

\* faulty variant: the failure of the clone is logged and the call goes on
CloneFail_Swallow(c) ==
  LET rec0 == call[c]
      rec1 == [rec0 EXCEPT !.cmds = Append(@, CloneCmd(rec0, FALSE)),
                           !.entries = SetLast(@, LastEntry(@).msg, "error")]
  IN
  /\ AtStage(c, "clone")
  /\ Finish(c, AfterEnsure(rec1, checkout[rec0.absPath]), checkout[rec0.absPath])
  /\ UNCHANGED <<fsVars, remote, parseVars, filesVars, taskVars, logVars>>

\* git clone failed (network, or the destination is there by now): nothing is left
CloneFail(c) ==
  LET rec0 == call[c] IN
  /\ AtStage(c, "clone")
  /\ Finish(c, [rec0 EXCEPT !.pc = "rejected",
                            !.cmds = Append(@, CloneCmd(rec0, FALSE)),
                            !.entries = SetLast(@, LastEntry(@).msg, "error"),
                            !.error = RuntimeError(rec0.url, GitFailure("clone"))],
            checkout[rec0.absPath])
  /\ UNCHANGED <<fsVars, remote, parseVars, filesVars, taskVars, logVars>>

\* ------------------------------------------------------ updateRemoteSource
BeginUpdate(c) ==
  \E name \in Names, url \in Urls, sourceType \in SourceTypes :
    LET path == absPathOf(name, url, sourceType)
        p == parseGitUrl(url)
        rec0 == [IdleCall EXCEPT !.op = "update", !.name = name, !.url = url,
                                 !.sourceType = sourceType, !.gitCwd = path]
    IN
    /\ FreeSlot(c)
    /\ IF p.threw
       THEN /\ call' = [call EXCEPT ![c] =
                          [rec0 EXCEPT !.pc = "rejected", !.absPath = path,
                                       !.error = p.error]]
            /\ scen' = scen
       ELSE /\ call' = [call EXCEPT ![c] = EnterEnsure(rec0)]
            /\ scen' = ScenOnBeginUpdate(c, path, url)
    /\ UNCHANGED <<fsVars, remote, parseVars, filesVars, taskVars, logVars>>

UpdateCmd(rec, cmd, ok) ==
  LET p == parseGitUrl(rec.url).parsed IN
  GitCmd(cmd,
         CASE cmd = "remote" -> <<"update">>
           [] cmd = "ls-remote" -> <<p.repositoryUrl, p.hash>>
           [] cmd = "show-ref" -> <<"--hash", p.hash>>
           [] cmd = "fetch" -> <<"--depth=1", "origin", p.hash>>
           [] cmd = "reset" -> <<"--hard", <<"origin/", p.hash>>>>,
         rec.gitCwd, ok)

\* a git call of update outside the try block failed: the error of the
\* subprocess is thrown as it is
Uncaught(c, stage, cmd) ==
  LET rec0 == call[c] IN
  /\ AtStage(c, stage)
  /\ Finish(c, [rec0 EXCEPT !.pc = "rejected",
                            !.cmds = Append(@, UpdateCmd(rec0, cmd, FALSE)),
                            !.error = ExecError(GitFailure(cmd))],
            checkout[rec0.gitCwd])
  /\ UNCHANGED <<fsVars, remote, parseVars, filesVars, taskVars, logVars>>

\* faulty variant: the checkout is removed when fetch or reset fails
Caught_Cleanup(c, stage, cmd) ==
  LET rec0 == call[c] IN
  /\ AtStage(c, stage)
  /\ exists' = [exists EXCEPT ![rec0.gitCwd] = FALSE]
  /\ checkout' = [checkout EXCEPT ![rec0.gitCwd] = NoCheckout]
  /\ Finish(c, [rec0 EXCEPT !.pc = "rejected",
                            !.cmds = Append(@, UpdateCmd(rec0, cmd, FALSE)),
                            !.entries = SetLast(@, LastEntry(@).msg, "error"),
                            !.error = RuntimeError(rec0.url, GitFailure(cmd))],
            NoCheckout)
  /\ UNCHANGED <<sourcesDirs, remote, parseVars, filesVars, taskVars, logVars>>

\* a git call inside the try block failed (lines 183-189)
Caught(c, stage, cmd) ==
  LET rec0 == call[c] IN
  /\ AtStage(c, stage)
  /\ Finish(c, [rec0 EXCEPT !.pc = "rejected",
                            !.cmds = Append(@, UpdateCmd(rec0, cmd, FALSE)),
                            !.entries = SetLast(@, LastEntry(@).msg, "error"),
                            !.error = RuntimeError(rec0.url, GitFailure(cmd))],
            checkout[rec0.gitCwd])
  /\ UNCHANGED <<fsVars, remote, parseVars, filesVars, taskVars, logVars>>

\* faulty variant: `git pull` in place of `git remote update`
RemoteUpdateOk_Pull(c) ==
  LET rec0 == call[c]
      r == remote[RefOf(rec0.url)]
  IN
  /\ AtStage(c, "remoteUpdate")
  /\ checkout' = [checkout EXCEPT ![rec0.gitCwd] =
                    [local |-> r, tracking |-> r, tree |-> r]]
  /\ Finish(c, [rec0 EXCEPT !.pc = "lsRemote",
                            !.cmds = Append(@, UpdateCmd(rec0, "remote", TRUE))],
            checkout'[rec0.gitCwd])
  /\ UNCHANGED <<exists, sourcesDirs, remote, parseVars, filesVars, taskVars, logVars>>

\* git remote update: the remote-tracking ref follows upstream
RemoteUpdateOk(c) ==
  LET rec0 == call[c] IN
  /\ AtStage(c, "remoteUpdate")
  /\ checkout' = [checkout EXCEPT ![rec0.gitCwd].tracking = remote[RefOf(rec0.url)]]
  /\ Finish(c, [rec0 EXCEPT !.pc = "lsRemote",
                            !.cmds = Append(@, UpdateCmd(rec0, "remote", TRUE))],
            checkout'[rec0.gitCwd])
  /\ UNCHANGED <<exists, sourcesDirs, remote, parseVars, filesVars, taskVars, logVars>>

RemoteUpdateFail(c) == Uncaught(c, "remoteUpdate", "remote")

\* git ls-remote <repositoryUrl> <hash>: one line, "<commit>\t<ref>"
LsRemoteOk(c) ==
  LET rec0 == call[c]
      refList == <<<<remote[RefOf(rec0.url)], "refs/heads/">>>>
  IN
  /\ AtStage(c, "lsRemote")
  /\ Finish(c, [rec0 EXCEPT !.pc = "showRef",
                            !.cmds = Append(@, UpdateCmd(rec0, "ls-remote", TRUE)),
                            !.remoteCommitId = getCommitIdFromRefList(refList)],
            checkout[rec0.gitCwd])
  /\ UNCHANGED <<fsVars, remote, parseVars, filesVars, taskVars, logVars>>

LsRemoteFail(c) == Uncaught(c, "lsRemote", "ls-remote")

\* git show-ref --hash <hash>: refs/heads/<hash>, then refs/remotes/origin/<hash>
ShowRefOk(c) ==
  LET rec0 == call[c]
      co == checkout[rec0.gitCwd]
      refList == <<<<co.local>>, <<co.tracking>>>>
      localCommitId == getCommitIdFromRefList(refList)
      rec1 == [rec0 EXCEPT !.cmds = Append(@, UpdateCmd(rec0, "show-ref", TRUE)),
                           !.localCommitId = localCommitId]
  IN
  /\ AtStage(c, "showRef")
  /\ IF commitsDiffer(localCommitId, rec0.remoteCommitId)
     THEN Finish(c, [rec1 EXCEPT !.pc = "fetch",
                                 !.entries = SetLast(@, <<"Fetching from ">> \o rec0.url,
                                                     LastEntry(@).status)], co)
     ELSE Finish(c, [rec1 EXCEPT !.pc = "resolved",
                                 !.entries = SetLast(@, <<"Source already up to date">>,
                                                     "success")], co)
  /\ UNCHANGED <<fsVars, remote, parseVars, filesVars, taskVars, logVars>>

ShowRefFail(c) == Uncaught(c, "showRef", "show-ref")

\* faulty variant: the fetch also moves the branch head and the working tree
FetchOk_Pull(c) ==
  LET rec0 == call[c]
      r == remote[RefOf(rec0.url)]
  IN
  /\ AtStage(c, "fetch")
  /\ checkout' = [checkout EXCEPT ![rec0.gitCwd] =
                    [local |-> r, tracking |-> r, tree |-> r]]
  /\ Finish(c, [rec0 EXCEPT !.pc = "reset",
                            !.cmds = Append(@, UpdateCmd(rec0, "fetch", TRUE))],
            checkout'[rec0.gitCwd])
  /\ UNCHANGED <<exists, sourcesDirs, remote, parseVars, filesVars, taskVars, logVars>>

\* git fetch --depth=1 origin <hash>: the remote-tracking ref follows upstream
FetchOk(c) ==
  LET rec0 == call[c] IN
  /\ AtStage(c, "fetch")
  /\ checkout' = [checkout EXCEPT ![rec0.gitCwd].tracking = remote[RefOf(rec0.url)]]
  /\ Finish(c, [rec0 EXCEPT !.pc = "reset",
                            !.cmds = Append(@, UpdateCmd(rec0, "fetch", TRUE))],
            checkout'[rec0.gitCwd])
  /\ UNCHANGED <<exists, sourcesDirs, remote, parseVars, filesVars, taskVars, logVars>>

\* faulty variant: the reset is run although the fetch failed
FetchFail_Continue(c) ==
  LET rec0 == call[c] IN
  /\ AtStage(c, "fetch")
  /\ Finish(c, [rec0 EXCEPT !.pc = "reset",
                            !.cmds = Append(@, UpdateCmd(rec0, "fetch", FALSE))],
            checkout[rec0.gitCwd])
  /\ UNCHANGED <<fsVars, remote, parseVars, filesVars, taskVars, logVars>>

FetchFail(c) == Caught(c, "fetch", "fetch")

\* git reset --hard origin/<hash>: branch head and working tree go to the
\* remote-tracking ref
ResetOk(c) ==
  LET rec0 == call[c] IN
  /\ AtStage(c, "reset")
  /\ checkout' = [checkout EXCEPT ![rec0.gitCwd] =
                    [@ EXCEPT !.local = checkout[rec0.gitCwd].tracking,
                              !.tree = checkout[rec0.gitCwd].tracking]]
  /\ Finish(c, [rec0 EXCEPT !.pc = "resolved",
                            !.cmds = Append(@, UpdateCmd(rec0, "reset", TRUE)),
                            !.entries = SetLast(@, <<"Source updated">>, "success")],
            checkout'[rec0.gitCwd])
  /\ UNCHANGED <<exists, sourcesDirs, remote, parseVars, filesVars, taskVars, logVars>>

ResetFail(c) == Caught(c, "reset", "reset")

\* the caller takes the outcome; what is kept of the call is what was asked
\* and the path it returned
Return(c) ==
  /\ Finished(c)
  /\ call' = [call EXCEPT ![c] =
                [IdleCall EXCEPT !.pc = "over", !.op = call[c].op, !.name = call[c].name,
                                 !.url = call[c].url, !.sourceType = call[c].sourceType,
                                 !.absPath = call[c].absPath, !.gitCwd = call[c].gitCwd,
                                 !.isCloned = call[c].isCloned,
                                 !.returned = call[c].returned]]
  /\ UNCHANGED <<fsVars, remote, scen, parseVars, filesVars, taskVars, logVars>>

\* ------------------------------------------------------------- environment
\* somebody pushes to an upstream ref
UpstreamMove ==
  \E r \in RemoteRefs :
    /\ NoneSettling
    /\ remote[r] < MaxCommit
    /\ remote' = [remote EXCEPT ![r] = @ + 1]
    /\ scen' = [p \in Paths |-> ScenIdle]
    /\ UNCHANGED <<fsVars, call, parseVars, filesVars, taskVars, logVars>>

Next ==
  \/ \E c \in Procs : BeginEnsure(c)
  \/ \E c \in Procs : BeginUpdate(c)
  \/ \E c \in Procs : EnsureDirDone(c)
  \/ \E c \in Procs : PathExistsDone(c)
  \/ \E c \in Procs : CloneOk(c)
  \/ \E c \in Procs : CloneFail(c)
  \/ \E c \in Procs : RemoteUpdateOk(c)
  \/ \E c \in Procs : RemoteUpdateFail(c)
  \/ \E c \in Procs : LsRemoteOk(c)
  \/ \E c \in Procs : LsRemoteFail(c)
  \/ \E c \in Procs : ShowRefOk(c)
  \/ \E c \in Procs : ShowRefFail(c)
  \/ \E c \in Procs : FetchOk(c)
  \/ \E c \in Procs : FetchFail(c)
  \/ \E c \in Procs : ResetOk(c)
  \/ \E c \in Procs : ResetFail(c)
  \/ \E c \in Procs : Return(c)
  \/ UpstreamMove

Spec == Init /\ [][Next]_vars

\* the cache directory is on the user's disk: a directory can be found at any
\* of the paths, also at one the handler has not cloned into
DiskInit ==
  /\ exists \in [Paths -> BOOLEAN]
  /\ checkout = [p \in Paths |->
                   IF exists[p] THEN [local |-> 1, tracking |-> 1, tree |-> 1]
                   ELSE NoCheckout]
  /\ sourcesDirs = {}
  /\ remote = [r \in RemoteRefs |-> 1]
  /\ call = [c \in Procs |-> IdleCall]
  /\ scen = [p \in Paths |-> ScenIdle]
  /\ parseIn = <<>>
  /\ parseOut = parseGitUrl(<<>>)
  /\ FilesIdle
  /\ TasksIdle
  /\ LogIdle

DiskSpec == DiskInit /\ [][Next]_vars

\* ---------------------------------------------------- parseGitUrl on its own
ParseUrl ==
  \E s \in Strings :
    /\ parseIn' = s
    /\ parseOut' = parseGitUrl(s)
    /\ UNCHANGED <<fsVars, remote, call, scen, filesVars, taskVars, logVars>>

ParseInit ==
  /\ exists = [p \in Paths |-> FALSE]
  /\ checkout = [p \in Paths |-> NoCheckout]
  /\ sourcesDirs = {}
  /\ remote = [r \in RemoteRefs |-> 1]
  /\ call = [c \in Procs |-> IdleCall]
  /\ scen = [p \in Paths |-> ScenIdle]
  /\ parseIn = <<>>
  /\ parseOut = parseGitUrl(<<>>)
  /\ FilesIdle
  /\ TasksIdle
  /\ LogIdle

ParseNext == ParseUrl

ParseSpec == ParseInit /\ [][ParseNext]_vars

\* ================================================================ getFiles
\* the sync machine and the parser at rest
SyncIdle ==
  /\ exists = [p \in Paths |-> FALSE]
  /\ checkout = [p \in Paths |-> NoCheckout]
  /\ sourcesDirs = {}
  /\ remote = [r \in RemoteRefs |-> 1]
  /\ call = [c \in Procs |-> IdleCall]
  /\ scen = [p \in Paths |-> ScenIdle]
  /\ parseIn = <<>>
  /\ parseOut = parseGitUrl(<<>>)

Statuses == {"untracked", "clean", "dirty"}
\* the one rule a .gardenignore file of the directory may hold
GardenIgnoreRule == <<"b", ".", "g", "o">>
FilesInit ==
  /\ SyncIdle
  /\ TasksIdle
  /\ LogIdle
  /\ repo \in {"none", "empty", "commits"}
  /\ wt \in [Files -> [status : Statuses, ignored : BOOLEAN, onDisk : {TRUE}]]
  /\ repo = "none" => \A f \in Files : wt[f].status = "untracked" /\ ~wt[f].ignored
  /\ \A f \in Files : wt[f].ignored => FileName(f) = GardenIgnoreRule
  /\ \E p \in ModulePaths, inc \in Includes : gf = IdleGf(p, inc)
  /\ prev = NoPrev
  /\ epoch = 0

\* ------------------------------------------------------ what git prints
Tracked(f) == wt[f].status # "untracked"
\* the content on disk is version 2 once a tracked file is edited
ContentOf(f) == IF wt[f].status = "dirty" THEN 2 ELSE 1
IndexHash(f) == BlobId(f, 1)
FileAt(path) == CHOOSE f \in Files : FileName(f) = path[Len(path)]

Collation == <<"*", ".", "/", "a", "b", "c", "d", "g", "m", "o", "r", "t", "x">>
CodeOf(ch) == CHOOSE i \in 1..Len(Collation) : Collation[i] = ch
RECURSIVE StringBefore(_, _)
StringBefore(a, b) ==
  IF b = <<>> THEN FALSE
  ELSE IF a = <<>> THEN TRUE
  ELSE IF Head(a) = Head(b) THEN StringBefore(Tail(a), Tail(b))
  ELSE CodeOf(Head(a)) < CodeOf(Head(b))
RECURSIVE ByName(_)
ByName(S) ==
  IF S = {} THEN <<>>
  ELSE LET f == CHOOSE x \in S :
                  \A y \in S \ {x} : StringBefore(FileName(x), FileName(y))
       IN <<f>> \o ByName(S \ {f})

\* a line is the sequence of its tab-separated fields; the first field of a
\* staged entry is the sequence of its space-separated fields
StagedLine(f) == <<<<"100644", IndexHash(f), "0">>, <<FileName(f)>>>>
OtherLine(f) == <<<<FileName(f)>>>>
\* git ls-files -s --other: the untracked files found, then the index
LsFilesOutput ==
  LET others == ByName({f \in Files : ~Tracked(f) /\ wt[f].onDisk})
      staged == ByName({f \in Files : Tracked(f)})
  IN [i \in 1..Len(others) |-> OtherLine(others[i])]
       \o [i \in 1..Len(staged) |-> StagedLine(staged[i])]
\* git ls-files --ignored --exclude-per-directory=.gardenignore
LsIgnoredOutput ==
  LET listed == ByName({f \in Files :
                          wt[f].ignored /\ (Tracked(f) \/ wt[f].onDisk)})
  IN [i \in 1..Len(listed) |-> <<FileName(listed[i])>>]
\* git diff-index --name-only HEAD: paths from the top-level directory
DiffIndexOutput ==
  LET changed == ByName({f \in Files :
                           Tracked(f) /\ (wt[f].status = "dirty" \/ ~wt[f].onDisk)})
      below == SubSeq(gf.path, Len(TopLevel) + 1, Len(gf.path))
  IN [i \in 1..Len(changed) |-> below \o <<FileName(changed[i])>>]
ExitCode(stage) ==
  IF repo = "none" THEN "128"
  ELSE IF stage = "diffIndex" /\ repo = "empty" THEN "128"
  ELSE "0"

\* ------------------------------------------------------ the code's functions
gitCli(output) == SelectSeq(output, LAMBDA line : line # <<>>)

\* faulty variant: the failure of diff-index is passed on
getModifiedFiles_Rethrow(code, output) ==
  IF code = "0" THEN [threw |-> FALSE, value |-> gitCli(output)]
  ELSE [threw |-> TRUE, value |-> <<>>]
getModifiedFiles(code, output) ==
  IF code = "0" THEN [threw |-> FALSE, value |-> gitCli(output)]
  ELSE IF code = "128" THEN [threw |-> FALSE, value |-> <<>>]
  ELSE [threw |-> TRUE, value |-> <<>>]

parseLine(split) ==
  IF Len(split) = 1 THEN [path |-> split[1], hash |-> Undefined]
  ELSE [path |-> split[2], hash |-> split[1][2]]

\* faulty variant: the paths are taken to be relative to the directory given
resolveModified_FromPath(gitRoot, path, modifiedRelPath) ==
  resolve(path, modifiedRelPath)
resolveModified(gitRoot, path, modifiedRelPath) ==
  resolve(gitRoot, modifiedRelPath)

\* faulty variant: nothing is filtered out
included_All(f, include) == TRUE
included(f, include) == Falsy(include) \/ matchGlobs(f.path, include)

\* faulty variant: an ignored file is kept
notIgnored_Always(f, ignored) == TRUE
notIgnored(f, ignored) == \A i \in 1..Len(ignored) : ignored[i] # f.path

\* faulty variant: the index hash of a modified file is used
needsHash_UntrackedOnly(f, modified, resolvedPath) == Falsy(f.hash)
needsHash(f, modified, resolvedPath) ==
  Falsy(f.hash) \/ resolvedPath \in modified

\* faulty variant: an entry without hash is returned
keepEntry_All(f) == TRUE
keepEntry(f) == f.hash # NoHash

\* faulty variant: the results are in the order the mappers finished in
collect_AsCompleted(slots, completed) ==
  [i \in 1..Len(completed) |-> slots[completed[i]]]
\* Bluebird.map gives the results in the order of its input
collect(slots, completed) == slots

startSlot(f, path, modified) ==
  LET resolvedPath == resolve(path, f.path) IN
  IF needsHash(f, modified, resolvedPath)
  THEN [path |-> resolvedPath, hash |-> NoHash, st |-> "stat", gone |-> FALSE]
  ELSE [path |-> resolvedPath, hash |-> f.hash, st |-> "done", gone |-> FALSE]

GfReject(code) == [gf EXCEPT !.pc = "rejected", !.error = [code |-> code]]
Range(seq) == {seq[i] : i \in 1..Len(seq)}

\* --------------------------------------------------------------- the steps
GfBegin ==
  /\ gf.pc = "idle"
  /\ gf' = [IdleGf(gf.path, gf.include) EXCEPT !.pc = "revParse", !.e0 = epoch]
  /\ UNCHANGED <<repo, wt, prev, epoch, syncVars, parseVars, taskVars, logVars>>

RevParseDone ==
  /\ gf.pc = "revParse"
  /\ gf' = IF ExitCode("revParse") = "0"
           THEN [gf EXCEPT !.gitRoot = gitCli(<<TopLevel>>)[1], !.pc = "lsFiles"]
           ELSE [GfReject(ExitCode("revParse")) EXCEPT !.failure = ExitCode("revParse")]
  /\ UNCHANGED <<repo, wt, prev, epoch, syncVars, parseVars, taskVars, logVars>>

\* faulty variant: every failure of the ls-files calls is taken for "no files"
GfCaught_Swallow(code) == [gf EXCEPT !.pc = "diffIndex"]
\* the catch block around the two ls-files calls
GfCaught(code) ==
  IF code # "128" THEN GfReject(code) ELSE [gf EXCEPT !.pc = "diffIndex"]

LsFilesDone ==
  /\ gf.pc = "lsFiles"
  /\ gf' = IF ExitCode("lsFiles") = "0"
           THEN [gf EXCEPT !.lines = gitCli(LsFilesOutput), !.pc = "lsIgnored"]
           ELSE [GfCaught(ExitCode("lsFiles")) EXCEPT !.failure = ExitCode("lsFiles")]
  /\ UNCHANGED <<repo, wt, prev, epoch, syncVars, parseVars, taskVars, logVars>>

LsIgnoredDone ==
  /\ gf.pc = "lsIgnored"
  /\ gf' = IF ExitCode("lsIgnored") = "0"
           THEN [gf EXCEPT !.ignored = gitCli(LsIgnoredOutput), !.pc = "diffIndex"]
           ELSE [GfCaught(ExitCode("lsIgnored")) EXCEPT !.failure = ExitCode("lsIgnored")]
  /\ UNCHANGED <<repo, wt, prev, epoch, syncVars, parseVars, taskVars, logVars>>

\* what getFiles does once diff-index has exited with `code`
AfterDiffIndex(code) ==
  LET got == getModifiedFiles(code, DiffIndexOutput)
      files == [i \in 1..Len(gf.lines) |-> parseLine(gf.lines[i])]
      modified == {resolveModified(gf.gitRoot, gf.path, rel) : rel \in Range(got.value)}
      filtered == SelectSeq(SelectSeq(files, LAMBDA f : included(f, gf.include)),
                            LAMBDA f : notIgnored(f, gf.ignored))
      slots == [i \in 1..Len(filtered) |-> startSlot(filtered[i], gf.path, modified)]
  IN IF got.threw THEN GfReject(code)
     ELSE [gf EXCEPT !.modified = modified, !.slots = slots,
                     !.hashed = {slots[i].path : i \in {j \in 1..Len(slots) : slots[j].st = "stat"}},
                     !.completed = SelectSeq([i \in 1..Len(slots) |-> i],
                                             LAMBDA i : slots[i].st = "done"),
                     !.pc = "hashing"]

DiffIndexDone ==
  /\ gf.pc = "diffIndex"
  /\ gf' = [AfterDiffIndex(ExitCode("diffIndex")) EXCEPT
             !.failure = IF ExitCode("diffIndex") = "0" THEN @ ELSE ExitCode("diffIndex")]
  /\ UNCHANGED <<repo, wt, prev, epoch, syncVars, parseVars, taskVars, logVars>>

\* a git command fails for a reason of its own
GitFails ==
  /\ gf.pc \in {"revParse", "lsFiles", "lsIgnored", "diffIndex"}
  /\ repo # "none"
  /\ gf' = [(CASE gf.pc = "revParse" -> GfReject("1")
              [] gf.pc \in {"lsFiles", "lsIgnored"} -> GfCaught("1")
              [] OTHER -> AfterDiffIndex("1")) EXCEPT !.failure = "1"]
  /\ UNCHANGED <<repo, wt, prev, epoch, syncVars, parseVars, taskVars, logVars>>

\* the catch block around hashObject
hashErrorBenign(code) == code = "128" \/ code = "ENOENT"
HashCaught(i, code) ==
  IF ~hashErrorBenign(code) THEN GfReject(code)
  ELSE [gf EXCEPT !.slots[i].st = "done", !.slots[i].gone = TRUE,
                  !.completed = Append(@, i)]

\* hashObject: stat(path)
StatDone(i) ==
  /\ gf.pc = "hashing"
  /\ i \in 1..Len(gf.slots)
  /\ gf.slots[i].st = "stat"
  /\ gf' = IF wt[FileAt(gf.slots[i].path)].onDisk
           THEN [gf EXCEPT !.slots[i].st = "read"]
           ELSE [HashCaught(i, "ENOENT") EXCEPT !.failure = "ENOENT"]
  /\ UNCHANGED <<repo, wt, prev, epoch, syncVars, parseVars, taskVars, logVars>>

\* hashObject: stat(path) fails for another reason than the file being gone
StatFails(i) ==
  /\ gf.pc = "hashing"
  /\ i \in 1..Len(gf.slots)
  /\ gf.slots[i].st = "stat"
  /\ wt[FileAt(gf.slots[i].path)].onDisk
  /\ gf' = [HashCaught(i, "EACCES") EXCEPT !.failure = "EACCES"]
  /\ UNCHANGED <<repo, wt, prev, epoch, syncVars, parseVars, taskVars, logVars>>

\* hashObject: the file is streamed into the digest; when it cannot be opened
\* any more, the error event of the read stream reaches neither the digest nor
\* the caller: the promise is never settled (or the process ends on the event)
ReadDone(i) ==
  /\ gf.pc = "hashing"
  /\ i \in 1..Len(gf.slots)
  /\ gf.slots[i].st = "read"
  /\ LET f == FileAt(gf.slots[i].path) IN
     gf' = IF wt[f].onDisk
           THEN [gf EXCEPT !.slots[i].st = "done",
                           !.slots[i].hash = BlobId(f, ContentOf(f)),
                           !.completed = Append(@, i)]
           ELSE [gf EXCEPT !.slots[i].st = "lost"]
  /\ UNCHANGED <<repo, wt, prev, epoch, syncVars, parseVars, taskVars, logVars>>

GfResolve ==
  /\ gf.pc = "hashing"
  /\ \A i \in 1..Len(gf.slots) : gf.slots[i].st = "done"
  /\ LET kept == SelectSeq(collect(gf.slots, gf.completed), keepEntry) IN
     gf' = [gf EXCEPT !.pc = "resolved", !.e1 = epoch,
                      !.result = [i \in 1..Len(kept) |->
                                    [path |-> kept[i].path, hash |-> kept[i].hash]]]
  /\ UNCHANGED <<repo, wt, prev, epoch, syncVars, parseVars, taskVars, logVars>>

\* the caller has the outcome; the next call is for the same directory
GfReturn ==
  /\ gf.pc \in {"resolved", "rejected"}
  /\ prev' = IF gf.pc = "resolved" /\ gf.e0 = gf.e1
             THEN [valid |-> TRUE, epoch |-> gf.e0, completed |-> gf.completed,
                   result |-> gf.result]
             ELSE NoPrev
  /\ gf' = IdleGf(gf.path, gf.include)
  /\ UNCHANGED <<repo, wt, epoch, syncVars, parseVars, taskVars, logVars>>

\* somebody removes a file from the working tree
FileVanish(f) ==
  /\ wt[f].onDisk
  /\ wt' = [wt EXCEPT ![f].onDisk = FALSE]
  /\ epoch' = epoch + 1
  /\ UNCHANGED <<repo, gf, prev, syncVars, parseVars, taskVars, logVars>>

FilesNext ==
  \/ GfBegin
  \/ RevParseDone
  \/ LsFilesDone
  \/ LsIgnoredDone
  \/ DiffIndexDone
  \/ GitFails
  \/ \E i \in 1..NumFiles : StatDone(i)
  \/ \E i \in 1..NumFiles : StatFails(i)
  \/ \E i \in 1..NumFiles : ReadDone(i)
  \/ GfResolve
  \/ GfReturn
  \/ \E f \in Files : FileVanish(f)

FilesSpec == FilesInit /\ [][FilesNext]_vars

\* ======================================================== running a task
TaskInit ==
  /\ SyncIdle
  /\ FilesIdle
  /\ LogIdle
  /\ \E m \in ModuleTypes : task = IdleTask(m)
  /\ store = [k \in TaskKeys |-> Absent]
  /\ puts = [k \in TaskKeys |-> Absent]
  /\ cacheGot = NoGet

\* faulty variant: the head of the output is kept
helmTaskResult_Head(res) ==
  [output |-> SubSeq(res.output, 1,
                     IF Len(res.output) > MAX_RUN_RESULT_OUTPUT_LENGTH
                     THEN MAX_RUN_RESULT_OUTPUT_LENGTH ELSE Len(res.output)),
   success |-> res.success, taskName |-> TaskName]
\* runHelmTask: { ...res, output: tailString(...), taskName: task.name }
helmTaskResult(res) ==
  [output |-> tailString(res.output, MAX_RUN_RESULT_OUTPUT_LENGTH, TRUE),
   success |-> res.success, taskName |-> TaskName]
\* runContainerTask: { ...res, taskName: task.name }
containerTaskResult(res) ==
  [output |-> res.output, success |-> res.success, taskName |-> TaskName]

\* faulty variant: the result is stored under one version whatever the task's
storeTaskResultParams_FixedVersion(t, result) ==
  [module |-> t.module, result |-> result, taskVersion |-> "v1",
   taskName |-> TaskName]
\* the argument of storeTaskResult
storeTaskResultParams(t, result) ==
  [module |-> t.module, result |-> result, taskVersion |-> t.taskVersion,
   taskName |-> TaskName]

\* the cache: put bounds the output and overwrites its key, get reads it
taskResultKey(module, taskName, taskVersion) == <<module, taskName, taskVersion>>
storeTaskResult(st, params) ==
  [st EXCEPT ![taskResultKey(params.module, params.taskName, params.taskVersion)] =
     [params.result EXCEPT
        !.output = tailString(@, MAX_RUN_RESULT_OUTPUT_LENGTH, TRUE)]]
getTaskResult(st, key) == st[key]

TaskBegin ==
  \E v \in Versions :
    /\ task.pc = "idle"
    /\ task' = [IdleTask(task.module) EXCEPT !.pc = "namespace", !.taskVersion = v]
    /\ UNCHANGED <<store, puts, cacheGot, syncVars, parseVars, filesVars, logVars>>

\* getAppNamespace resolved
NamespaceDone ==
  /\ task.pc = "namespace"
  /\ task' = [task EXCEPT !.pc = "image"]
  /\ UNCHANGED <<store, puts, cacheGot, syncVars, parseVars, filesVars, logVars>>

\* the image of the task's container is known
ImageDone ==
  /\ task.pc = "image"
  /\ task' = [task EXCEPT !.pc = "runPod"]
  /\ UNCHANGED <<store, puts, cacheGot, syncVars, parseVars, filesVars, logVars>>

\* one of the two rejects
PrepareFails ==
  /\ task.pc \in {"namespace", "image"}
  /\ task' = [task EXCEPT !.pc = "rejected"]
  /\ UNCHANGED <<store, puts, cacheGot, syncVars, parseVars, filesVars, logVars>>

\* runPod resolved: the result is made and storeTaskResult is called
RunPodDone ==
  \E output \in Outputs :
    LET res == [output |-> output, success |-> TRUE] IN
    /\ task.pc = "runPod"
    /\ task' = [task EXCEPT !.pc = "store", !.run = "ok", !.res = res,
                            !.result = IF task.module = "helm" THEN helmTaskResult(res)
                                       ELSE containerTaskResult(res),
                            !.storeCalls = @ + 1]
    /\ UNCHANGED <<store, puts, cacheGot, syncVars, parseVars, filesVars, logVars>>

\* runPod rejected (ignoreError: false)
RunPodFails ==
  /\ task.pc = "runPod"
  /\ task' = [task EXCEPT !.pc = "rejected", !.run = "failed"]
  /\ UNCHANGED <<store, puts, cacheGot, syncVars, parseVars, filesVars, logVars>>

StoreDone ==
  /\ task.pc = "store"
  /\ store' = storeTaskResult(store, storeTaskResultParams(task, task.result))
  /\ puts' = [puts EXCEPT ![<<task.module, TaskName, task.taskVersion>>] =
                [result |-> task.result, raw |-> task.res.output]]
  /\ cacheGot' = NoGet
  /\ task' = [task EXCEPT !.pc = "resolved", !.stored = "ok"]
  /\ UNCHANGED <<syncVars, parseVars, filesVars, logVars>>

\* faulty variant: the result is returned although it was not stored
StoreFails_Continue ==
  /\ task.pc = "store"
  /\ task' = [task EXCEPT !.pc = "resolved", !.stored = "failed"]
  /\ UNCHANGED <<store, puts, cacheGot, syncVars, parseVars, filesVars, logVars>>

\* storeTaskResult rejected
StoreFails ==
  /\ task.pc = "store"
  /\ task' = [task EXCEPT !.pc = "rejected", !.stored = "failed"]
  /\ UNCHANGED <<store, puts, cacheGot, syncVars, parseVars, filesVars, logVars>>

TaskReturn ==
  /\ task.pc \in {"resolved", "rejected"}
  /\ task' = IdleTask(task.module)
  /\ UNCHANGED <<store, puts, cacheGot, syncVars, parseVars, filesVars, logVars>>

\* somebody looks a result up
CacheGet ==
  \E v \in Versions :
    LET key == taskResultKey(task.module, TaskName, v) IN
    /\ cacheGot' = [asked |-> TRUE, key |-> key, value |-> getTaskResult(store, key)]
    /\ UNCHANGED <<task, store, puts, syncVars, parseVars, filesVars, logVars>>

TaskNext ==
  \/ TaskBegin
  \/ NamespaceDone
  \/ ImageDone
  \/ PrepareFails
  \/ RunPodDone
  \/ RunPodFails
  \/ StoreDone
  \/ StoreFails
  \/ TaskReturn
  \/ CacheGet

TaskSpec == TaskInit /\ [][TaskNext]_vars

\* ============================================================ findLogNode
\* the nodes below the root are numbered in depth-first pre-order; a tree is
\* the function from each node to its parent
RECURSIVE IsAncestorOrSelf(_, _, _)
IsAncestorOrSelf(par, a, n) ==
  n = a \/ (n # RootNode /\ IsAncestorOrSelf(par, a, par[n]))
LogTrees ==
  {par \in [LogNodes -> RootNode..(MaxNodes - 1)] :
     /\ par[1] = RootNode
     /\ \A i \in 2..MaxNodes :
          par[i] < i /\ (par[i] = RootNode \/ IsAncestorOrSelf(par, par[i], i - 1))}

RECURSIVE Ascending(_)
Ascending(S) ==
  IF S = {} THEN <<>>
  ELSE LET m == CHOOSE x \in S : \A y \in S : x <= y IN <<m>> \o Ascending(S \ {m})
\* node.children
ChildrenOf(par, node) == Ascending({c \in LogNodes : par[c] = node})

\* the callback findLogNode gives to traverseChildren; st holds `found` and
\* the nodes the callback was invoked on
findLogNodeCallback(match, entry, st) ==
  IF entry \in match
  THEN [found |-> entry, calls |-> Append(st.calls, entry), proceed |-> FALSE]
  ELSE [found |-> st.found, calls |-> Append(st.calls, entry), proceed |-> TRUE]

RECURSIVE traverseChildren(_, _, _, _)
RECURSIVE traverseFrom(_, _, _, _, _)
\* the for loop of traverseChildren from index idx on
traverseFrom(par, match, children, idx, st) ==
  IF idx > Len(children) THEN st
  ELSE LET st1 == findLogNodeCallback(match, children[idx], st) IN
       IF ~st1.proceed THEN st1
       ELSE traverseFrom(par, match, children, idx + 1,
                         traverseChildren(par, match, children[idx], st1))
traverseChildren(par, match, node, st) ==
  traverseFrom(par, match, ChildrenOf(par, node), 1, st)

findLogNode(par, match, node) ==
  LET st == traverseChildren(par, match, node,
                             [found |-> NoNode, calls |-> <<>>, proceed |-> TRUE])
  IN [done |-> TRUE, found |-> st.found, calls |-> st.calls]

LogInit ==
  /\ SyncIdle
  /\ FilesIdle
  /\ TasksIdle
  /\ logTree \in LogTrees
  /\ logMatch \in SUBSET LogNodes
  /\ logOut = NoLogOut

FindLogNode ==
  /\ ~logOut.done
  /\ logOut' = findLogNode(logTree, logMatch, RootNode)
  /\ UNCHANGED <<logTree, logMatch, syncVars, parseVars, filesVars, taskVars>>

LogNext == FindLogNode

LogSpec == LogInit /\ [][LogNext]_vars

\* ======================================================================
\* Claims
\* ======================================================================
StagesAfterExistenceCheck ==
  {"clone", "remoteUpdate", "lsRemote", "showRef", "fetch", "reset"}
InFlight(c) == call[c].pc \in StagesAfterExistenceCheck
\* no call other than c has ever begun on c's path
OnlyCallOnPath(c) ==
  \A d \in Procs \ {c} : Begun(d) => call[d].absPath # call[c].absPath
FetchAndReset(cmds) == SelectSeq(cmds, LAMBDA x : x.cmd \in {"fetch", "reset"})
NamesOfFetchAndReset(names) == SelectSeq(names, LAMBDA x : x \in {"fetch", "reset"})
WellFormed(url) == ~parseGitUrl(url).threw

\* C1: calls on the same (name, url, sourceType) are serialized: no two of them
\* are at once between the existence check and their last git command, so two
\* calls never both run clone into the same path.
C1_Serialized ==
  \A c, d \in Procs :
    (c # d /\ call[c].absPath = call[d].absPath) => ~(InFlight(c) /\ InFlight(d))

\* C2: a Present checkout at commit A, upstream at B # A, no other call and no
\* further push: the first update that succeeds reports "Source updated" after
\* exactly one fetch followed by one reset and leaves the local commit at B;
\* the update after it runs no fetch and no reset.
C2_SyncConvergence ==
  \A p \in Paths :
    LET s == scen[p] IN
    (s.active /\ s.baseLocal # s.baseRemote) =>
      /\ Len(s.reports) >= 1 =>
           /\ s.reports[1].msg = <<"Source updated">>
           /\ NamesOfFetchAndReset(s.reports[1].cmds) = <<"fetch", "reset">>
           /\ s.reports[1].localAfter = s.baseRemote
      /\ Len(s.reports) >= 2 =>
           /\ NamesOfFetchAndReset(s.reports[2].cmds) = <<>>
           /\ s.reports[2].localAfter = s.baseRemote

C2_Witness ==
  \E p \in Paths :
    scen[p].active /\ scen[p].baseLocal # scen[p].baseRemote /\ Len(scen[p].reports) = 2

\* C3: a Present checkout whose local commit is the upstream commit, no other
\* call and no push: each of two consecutive updates that succeed reports
\* "Source already up to date", and the local commit after each is the one
\* before the first.
C3_SyncIdempotence ==
  \A p \in Paths :
    LET s == scen[p] IN
    (s.active /\ s.baseLocal = s.baseRemote) =>
      \A i \in 1..Len(s.reports) :
        /\ s.reports[i].msg = <<"Source already up to date">>
        /\ s.reports[i].localAfter = s.baseLocal

C3_Witness ==
  \E p \in Paths :
    scen[p].active /\ scen[p].baseLocal = scen[p].baseRemote /\ Len(scen[p].reports) = 2

\* C4: an update that reads equal remote and local commit ids ends there with
\* "Source already up to date", having run neither fetch nor reset; none of its
\* steps on that way (remote update, ls-remote, show-ref) changes the local
\* commit, the working tree or the path's existence, so a call that is the only
\* one on its path leaves the checkout as it found it.
C4_StateOk ==
  \A c \in Procs :
    (call[c].op = "update" /\ call[c].localCommitId # -1
       /\ call[c].localCommitId = call[c].remoteCommitId) =>
      /\ call[c].pc = "resolved"
      /\ LastEntry(call[c].entries).msg = <<"Source already up to date">>
      /\ LastEntry(call[c].entries).status = "success"
      /\ FetchAndReset(call[c].cmds) = <<>>
      /\ OnlyCallOnPath(c) =>
           /\ checkout[call[c].gitCwd].local = call[c].snap.local
           /\ checkout[call[c].gitCwd].tree = call[c].snap.tree
C4_StepOk ==
  \A c \in Procs :
    (call[c].pc \in {"remoteUpdate", "lsRemote", "showRef"} /\ call'[c] # call[c]
       /\ call'[c].pc \in {"lsRemote", "showRef", "resolved"}) =>
      /\ exists' = exists
      /\ checkout'[call[c].gitCwd].local = checkout[call[c].gitCwd].local
      /\ checkout'[call[c].gitCwd].tree = checkout[call[c].gitCwd].tree
C4_UpToDateMutatesNothing == [][C4_StepOk /\ C4_StateOk']_vars

C4_Witness ==
  \E c \in Procs :
    /\ call[c].op = "update" /\ call[c].pc = "resolved"
    /\ call[c].localCommitId = call[c].remoteCommitId
    /\ OnlyCallOnPath(c)

\* C5: an update that reads different remote and local commit ids runs
\* `fetch --depth=1 origin <ref>` and then `reset --hard origin/<ref>` in the
\* checkout, the reset only after the fetch succeeded; when either fails the
\* call is rejected with a RuntimeError holding the url and the cause, and
\* "Source updated" is reported only when both succeeded.
C5_FetchThenReset ==
  \A c \in Procs :
    LET rec == call[c]
        fr == FetchAndReset(rec.cmds)
        hash == At(Split(rec.url, "#"), 1)
        fetchArgs == <<"--depth=1", "origin", hash>>
        resetArgs == <<"--hard", <<"origin/", hash>>>>
        IsFetch(x, ok) == x.cmd = "fetch" /\ x.args = fetchArgs /\ x.ok = ok
                            /\ x.cwd = absPathOf(rec.name, rec.url, rec.sourceType)
        IsReset(x, ok) == x.cmd = "reset" /\ x.args = resetArgs /\ x.ok = ok
                            /\ x.cwd = absPathOf(rec.name, rec.url, rec.sourceType)
        Failed(cause) == /\ rec.error.kind = "RuntimeError"
                         /\ rec.error.repositoryUrl = rec.url
                         /\ rec.error.message = <<"git", cause, "failed">>
                         /\ LastEntry(rec.entries).msg # <<"Source updated">>
                         /\ LastEntry(rec.entries).status = "error"
    IN
    /\ (rec.op = "update" /\ rec.localCommitId # -1
          /\ rec.localCommitId # rec.remoteCommitId) =>
         \/ rec.pc = "fetch" /\ fr = <<>>
         \/ rec.pc = "reset" /\ Len(fr) = 1 /\ IsFetch(fr[1], TRUE)
         \/ /\ rec.pc = "resolved" /\ Len(fr) = 2
            /\ IsFetch(fr[1], TRUE) /\ IsReset(fr[2], TRUE)
            /\ LastEntry(rec.entries).msg = <<"Source updated">>
         \/ rec.pc = "rejected" /\ Len(fr) = 1 /\ IsFetch(fr[1], FALSE) /\ Failed("fetch")
         \/ /\ rec.pc = "rejected" /\ Len(fr) = 2
            /\ IsFetch(fr[1], TRUE) /\ IsReset(fr[2], FALSE) /\ Failed("reset")
    /\ \A i \in 1..Len(rec.cmds) :
         rec.cmds[i].cmd = "reset" =>
           i > 1 /\ rec.cmds[i - 1].cmd = "fetch" /\ rec.cmds[i - 1].ok

C5_Witness ==
  \E c \in Procs :
    /\ call[c].pc = "rejected" /\ call[c].error.kind = "RuntimeError"
    /\ Len(FetchAndReset(call[c].cmds)) = 2

\* C6: no step of update before the hard reset (remote update, ls-remote,
\* show-ref, fetch; ended well or not) changes the local commit, the working
\* tree or the path's existence; so when one of them fails in a call that is
\* the only one on its path, the checkout is as it was when update began its
\* own steps.
C6_StateOk ==
  \A c \in Procs :
    LET rec == call[c] IN
    (rec.op = "update" /\ rec.pc = "rejected" /\ Len(rec.cmds) > 0
       /\ rec.cmds[Len(rec.cmds)].cmd \in {"remote", "ls-remote", "show-ref", "fetch"}
       /\ OnlyCallOnPath(c)) =>
      /\ exists[rec.gitCwd]
      /\ checkout[rec.gitCwd].local = rec.snap.local
      /\ checkout[rec.gitCwd].tree = rec.snap.tree
C6_StepOk ==
  \A c \in Procs :
    (call[c].pc \in {"remoteUpdate", "lsRemote", "showRef", "fetch"}
       /\ call'[c] # call[c]) =>
      /\ exists' = exists
      /\ checkout'[call[c].gitCwd].local = checkout[call[c].gitCwd].local
      /\ checkout'[call[c].gitCwd].tree = checkout[call[c].gitCwd].tree
C6_FailureBeforeResetKeepsState == [][C6_StepOk /\ C6_StateOk']_vars

C6_Witness ==
  \E c \in Procs :
    /\ call[c].op = "update" /\ call[c].pc = "rejected" /\ OnlyCallOnPath(c)
    /\ Len(call[c].cmds) > 0
    /\ call[c].cmds[Len(call[c].cmds)].cmd = "fetch"
    /\ remote[RefOf(call[c].url)] # checkout[call[c].gitCwd].local

\* C7: for a well-formed reference, ensureRemoteSource (called directly or by
\* update) clones exactly when it found the path absent: then it runs one
\* `clone --depth=1 --branch=<ref> <repositoryUrl> <path>` and, when that
\* succeeds, the path exists; when it found the path it runs no git command and
\* returns the path.  Calls with the same (name, url, sourceType) return the
\* same path, which is the directory update runs git in.
C7_CloneIffAbsent ==
  /\ \A c \in Procs :
       LET rec == call[c]
           p == absPathOf(rec.name, rec.url, rec.sourceType)
           parts == Split(rec.url, "#")
           cloneArgs == <<"--depth=1", <<"--branch=", At(parts, 1)>>, At(parts, 0), p>>
           clones == SelectSeq(rec.cmds, LAMBDA x : x.cmd = "clone")
       IN
       (Begun(c) /\ WellFormed(rec.url)) =>
         /\ (rec.isCloned = "false" /\ rec.pc \notin {"clone", "over"}) =>
              /\ Len(clones) = 1 /\ rec.cmds[1] = clones[1]
              /\ clones[1].args = cloneArgs
              /\ clones[1].ok => (exists[p] /\ rec.returned = p)
         /\ (rec.isCloned \in {"unset", "true"} \/ rec.pc = "clone") => clones = <<>>
         /\ rec.isCloned = "true" =>
              /\ rec.returned = p
              /\ rec.op = "ensure" => (rec.pc \in {"resolved", "over"} /\ rec.cmds = <<>>)
         /\ rec.op = "update" => rec.gitCwd = p
  /\ \A c, d \in Procs :
       (/\ call[c].returned # NoPath /\ Begun(d)
        /\ call[c].name = call[d].name /\ call[c].url = call[d].url
        /\ call[c].sourceType = call[d].sourceType) =>
         /\ call[d].returned \in {NoPath, call[c].returned}
         /\ call[d].op = "update" => call[d].gitCwd = call[c].returned

C7_Witness ==
  \E c, d \in Procs :
    /\ call[c].op = "ensure" /\ Over(c) /\ call[c].isCloned = "false"
    /\ call[c].returned # NoPath
    /\ call[d].pc = "resolved" /\ call[d].isCloned = "true"
    /\ call[d].returned = call[c].returned

\* C8: when the clone fails the call is rejected with a RuntimeError holding
\* the full url and the cause's message, the clone was tried once, no other git
\* command is run by that call (an update runs no remote update, ls-remote,
\* fetch or reset), and with no other call on the path the path is still absent.
C8_CloneFailure ==
  \A c \in Procs :
    LET rec == call[c] IN
    (\E i \in 1..Len(rec.cmds) : rec.cmds[i].cmd = "clone" /\ ~rec.cmds[i].ok) =>
      /\ rec.pc = "rejected"
      /\ rec.error = [kind |-> "RuntimeError", repositoryUrl |-> rec.url,
                      message |-> <<"git", "clone", "failed">>]
      /\ Len(rec.cmds) = 1
      /\ LastEntry(rec.entries).status = "error"
      /\ OnlyCallOnPath(c) => ~exists[rec.absPath]

C8_Witness ==
  \E c \in Procs :
    /\ call[c].op = "update" /\ call[c].pc = "rejected" /\ OnlyCallOnPath(c)
    /\ Len(call[c].cmds) = 1 /\ call[c].cmds[1].cmd = "clone"

\* C9: ensureRemoteSource given a reference without "#<refName>" is rejected
\* with a ConfigurationError and runs no clone, whether or not the path exists.
C9_EnsureRejectsBareReference ==
  \A c \in Procs :
    (call[c].op = "ensure" /\ Finished(c) /\ ~WellFormed(call[c].url)) =>
      /\ call[c].pc = "rejected"
      /\ call[c].error.kind = "ConfigurationError"
      /\ call[c].cmds = <<>>

\* C10: parseGitUrl throws a ConfigurationError holding the given url for every
\* string with no '#' and for every string with nothing after its first '#'.
HasSeparator(s) == \E i \in 1..Len(s) : s[i] = "#"
FirstSeparator(s) == CHOOSE i \in 1..Len(s) : s[i] = "#" /\ \A j \in 1..(i - 1) : s[j] # "#"
C10_ParseRejectsMissingRef ==
  (~HasSeparator(parseIn) \/ FirstSeparator(parseIn) = Len(parseIn)) =>
    /\ parseOut.threw
    /\ parseOut.error.kind = "ConfigurationError"
    /\ parseOut.error.repositoryUrl = parseIn

C10_Witness ==
  /\ HasSeparator(parseIn) /\ FirstSeparator(parseIn) = Len(parseIn)
  /\ Len(parseIn) = MaxLen
  /\ parseOut.threw

\* C11: for every string "<repositoryUrl>#<refName>" with both parts non-empty
\* and free of '#', parseGitUrl returns exactly the two parts, and
\* repositoryUrl + "#" + refName is the input again.
OneSeparator(s) ==
  /\ HasSeparator(s)
  /\ \A i, j \in 1..Len(s) : (s[i] = "#" /\ s[j] = "#") => i = j
  /\ FirstSeparator(s) \notin {1, Len(s)}
C11_ParseRoundTrip ==
  OneSeparator(parseIn) =>
    LET i == FirstSeparator(parseIn) IN
    /\ ~parseOut.threw
    /\ parseOut.parsed.repositoryUrl = SubSeq(parseIn, 1, i - 1)
    /\ parseOut.parsed.hash = SubSeq(parseIn, i + 1, Len(parseIn))
    /\ parseOut.parsed.repositoryUrl \o <<"#">> \o parseOut.parsed.hash = parseIn

C11_Witness ==
  /\ OneSeparator(parseIn)
  /\ Len(parseIn) = MaxLen
  /\ parseOut.parsed.repositoryUrl # parseOut.parsed.hash
  /\ ~parseOut.threw

\* ---------------------------------------------------- claims on getFiles
GfDone == gf.pc \in {"resolved", "rejected"}
\* the file f under the directory given, written without path.resolve
AbsPathOf(f) == gf.path \o <<FileName(f)>>
ResultPaths == {gf.result[i].path : i \in 1..Len(gf.result)}
InResult(f) == AbsPathOf(f) \in ResultPaths
EntryOf(f) == gf.result[CHOOSE i \in 1..Len(gf.result) : gf.result[i].path = AbsPathOf(f)]
\* f is a candidate: ls-files listed it
Listed(f) ==
  \E i \in 1..Len(gf.lines) : gf.lines[i][Len(gf.lines[i])] = <<FileName(f)>>
IgnoredListed(f) == \E i \in 1..Len(gf.ignored) : gf.ignored[i] = <<FileName(f)>>
\* the name of f ends as one of the include patterns asks
Wanted(f) ==
  \E i \in 1..Len(gf.include) :
    EndsWith(FileName(f), SubSeq(gf.include[i], 5, Len(gf.include[i])))

\* C12: when the directory is in no repository (git exits with 128), getFiles
\* returns an empty result and does not throw, whichever git call meets the 128.
C12_NotARepositoryIsEmpty ==
  (repo = "none" /\ GfDone) => (gf.pc = "resolved" /\ gf.result = <<>>)

\* C13: in a repository without commits (diff-index exits with 128) the
\* modified set is empty and getFiles does not fail of it: the candidates that
\* pass the filters and are still there are returned, an untracked one with the
\* hash computed from its content.
C13_NoCommitsNoFailure ==
  repo = "empty" =>
    /\ gf.pc \in {"hashing", "resolved"} => gf.modified = {}
    /\ gf.pc = "rejected" => gf.error.code # "128"
    /\ gf.pc = "resolved" =>
         \A f \in Files :
           (/\ Listed(f) /\ ~IgnoredListed(f) /\ wt[f].onDisk
            /\ gf.include = NoInclude \/ Wanted(f)) =>
             /\ InResult(f)
             /\ ~Tracked(f) =>
                  /\ EntryOf(f).hash = BlobId(f, ContentOf(f))
                  /\ AbsPathOf(f) \in gf.hashed

C13_Witness ==
  /\ repo = "empty"
  /\ gf.pc = "resolved"
  /\ \E f, g \in Files :
       /\ ~Tracked(f) /\ InResult(f) /\ AbsPathOf(f) \in gf.hashed
       /\ wt[g].status = "dirty" /\ InResult(g)

\* C14: no entry returned by getFiles has an empty hash; a candidate whose file
\* is gone when it is to be hashed is not in the result, and every other
\* filtered entry is, with its hash.
C14_NoEmptyHash ==
  gf.pc = "resolved" =>
    /\ \A i \in 1..Len(gf.result) :
         gf.result[i].hash # NoHash /\ gf.result[i].hash # Undefined
    /\ \A i \in 1..Len(gf.slots) :
         IF gf.slots[i].gone
         THEN gf.slots[i].path \notin ResultPaths
         ELSE \E j \in 1..Len(gf.result) :
                gf.result[j] = [path |-> gf.slots[i].path, hash |-> gf.slots[i].hash]

C14_Witness ==
  /\ gf.pc = "resolved"
  /\ \E i \in 1..Len(gf.slots) : gf.slots[i].gone
  /\ \E f \in Files : InResult(f) /\ AbsPathOf(f) \in gf.hashed

\* C15: with an include set, every entry returned is of a file whose path
\* under the directory matches one of the patterns; without one, every
\* candidate that is not ignored (and is still there) is returned.
C15_IncludeFilter ==
  gf.pc = "resolved" =>
    /\ gf.include # NoInclude => \A f \in Files : InResult(f) => Wanted(f)
    /\ gf.include = NoInclude =>
         \A f \in Files :
           (Listed(f) /\ ~IgnoredListed(f) /\ wt[f].onDisk) => InResult(f)

C15_Witness ==
  /\ gf.pc = "resolved"
  /\ gf.include # NoInclude
  /\ \E f, g \in Files :
       /\ Listed(f) /\ Wanted(f) /\ InResult(f)
       /\ Listed(g) /\ ~Wanted(g) /\ ~IgnoredListed(g) /\ wt[g].onDisk /\ ~InResult(g)

C17_IndexHashReuse ==
  gf.pc = "resolved" =>
    \A f \in Files :
      InResult(f) =>
        IF Tracked(f) /\ AbsPathOf(f) \notin gf.modified
        THEN EntryOf(f).hash = IndexHash(f) /\ AbsPathOf(f) \notin gf.hashed
        ELSE EntryOf(f).hash = BlobId(f, ContentOf(f)) /\ AbsPathOf(f) \in gf.hashed

C17_Witness ==
  /\ gf.pc = "resolved"
  /\ repo = "commits"
  /\ \E f, g \in Files :
       /\ wt[f].status = "dirty" /\ InResult(f) /\ EntryOf(f).hash = BlobId(f, 2)
       /\ wt[g].status = "clean" /\ InResult(g) /\ EntryOf(g).hash = IndexHash(g)

\* C18: the path of every entry returned is absolute and resolved, the
\* directory given joined with the path git listed; the modified set holds the
\* same absolute paths for the files diff-index names.
PlainSegments(p) == \A i \in 1..Len(p) : p[i] \notin {<<".">>, <<".", ".">>}
C18_AbsolutePaths ==
  /\ gf.pc = "resolved" =>
       \A i \in 1..Len(gf.result) :
         /\ isAbsolute(gf.result[i].path)
         /\ PlainSegments(gf.result[i].path)
         /\ \E f \in Files : Listed(f) /\ gf.result[i].path = AbsPathOf(f)
  /\ (gf.pc \in {"hashing", "resolved"} /\ repo = "commits") =>
       /\ gf.modified \subseteq {AbsPathOf(f) : f \in Files}
       /\ \A f \in Files : wt[f].status = "dirty" => AbsPathOf(f) \in gf.modified
       /\ \A f \in Files :
            AbsPathOf(f) \in gf.modified =>
              Tracked(f) /\ (wt[f].status = "dirty" \/ ~wt[f].onDisk)

C18_Witness ==
  /\ gf.pc = "resolved"
  /\ gf.path # gf.gitRoot
  /\ \E f, g \in Files :
       /\ wt[f].status = "dirty" /\ AbsPathOf(f) \in gf.modified /\ InResult(f)
       /\ wt[g].status = "clean" /\ InResult(g)

\* C19: the entries returned by getFiles are in sorted order by path, in
\* whatever order git listed the candidates and the hashes were computed.
RECURSIVE PathBefore(_, _)
PathBefore(p, q) ==
  IF q = <<>> THEN FALSE
  ELSE IF p = <<>> THEN TRUE
  ELSE IF Head(p) = Head(q) THEN PathBefore(Tail(p), Tail(q))
  ELSE StringBefore(Head(p), Head(q))
C19_SortedByPath ==
  gf.pc = "resolved" =>
    \A i, j \in 1..Len(gf.result) :
      i < j => PathBefore(gf.result[i].path, gf.result[j].path)

\* C20: a getFiles call for the same directory and include set as the call
\* before it, with no change to the files since that call began, returns the
\* same sequence of entries, in whatever order the hashes were computed.
C20_Determinism ==
  (/\ gf.pc = "resolved" /\ prev.valid
   /\ gf.e0 = prev.epoch /\ gf.e1 = prev.epoch) => gf.result = prev.result

C20_Witness ==
  /\ gf.pc = "resolved" /\ prev.valid
  /\ gf.e0 = prev.epoch /\ gf.e1 = prev.epoch
  /\ gf.completed # prev.completed
  /\ Len(gf.result) > 1
  /\ gf.result = prev.result

\* C21: when a file vanishes after hashObject has read its size, hashObject
\* fails with a not-found error (no digest, not pending for ever) and getFiles
\* leaves the entry out and completes: no hashObject call is left unsettled.
C21_VanishMidReadRecovered ==
  gf.pc = "hashing" => \A i \in 1..Len(gf.slots) : gf.slots[i].st # "lost"

CmdsOfUpdate == {"remote", "ls-remote", "show-ref", "fetch", "reset"}

\* C26: updateRemoteSource runs none of its own git calls (remote update,
\* ls-remote, show-ref, fetch, reset) before its ensureRemoteSource has returned
\* the path: the existence check is done by then, and a clone it needed has
\* been run, successfully, before them.
C26_EnsureBeforeUpdate ==
  \A c \in Procs :
    (call[c].op = "update" /\ ~Over(c)) =>
      \A i \in 1..Len(call[c].cmds) :
        call[c].cmds[i].cmd \in CmdsOfUpdate =>
          /\ call[c].returned = call[c].absPath
          /\ call[c].returned # NoPath
          /\ call[c].isCloned \in {"true", "false"}
          /\ call[c].isCloned = "false" =>
               \E j \in 1..(i - 1) :
                 call[c].cmds[j].cmd = "clone" /\ call[c].cmds[j].ok

C26_Witness ==
  \E c \in Procs :
    /\ call[c].op = "update" /\ call[c].pc = "resolved"
    /\ call[c].isCloned = "false"
    /\ CountCmd(call[c].cmds, "clone") = 1
    /\ CountCmd(call[c].cmds, "reset") = 1

\* C27: a cache path that is present stays present through every step, failing
\* calls included, and a path becomes present only by the clone of a call on it.
C27_StepOk ==
  \A p \in Paths :
    /\ exists[p] => exists'[p]
    /\ (~exists[p] /\ exists'[p]) =>
         \E c \in Procs :
           /\ call[c].pc = "clone" /\ call[c].absPath = p
           /\ call'[c].cmds # <<>>
           /\ LET last == call'[c].cmds[Len(call'[c].cmds)] IN
              last.cmd = "clone" /\ last.ok
C27_NeverDeleted == [][C27_StepOk]_vars

C27_Witness ==
  \E c, d \in Procs :
    /\ call[c].op = "update" /\ call[c].pc = "rejected"
    /\ call[c].error.kind = "RuntimeError"
    /\ CountCmd(call[c].cmds, "fetch") = 1
    /\ exists[call[c].gitCwd]
    /\ Over(d) /\ call[d].isCloned = "false" /\ call[d].returned = call[c].gitCwd

\* C29: every log entry a call has made with status "active" is set to
\* success or to error by the time the call returns or throws.
C29_NoEntryLeftActive ==
  \A c \in Procs :
    Finished(c) =>
      \A i \in 1..Len(call[c].entries) : call[c].entries[i].status # "active"

\* ------------------------------------------------ claims on the task results
IsSuffix(t, str) ==
  Len(t) <= Len(str) /\ SubSeq(str, Len(str) - Len(t) + 1, Len(str)) = t

ReadsAs(value, k) ==
  IF puts[k] = Absent THEN value = Absent
  ELSE /\ value # Absent
       /\ value.taskName = puts[k].result.taskName
       /\ value.success = puts[k].result.success
       /\ IsSuffix(value.output, puts[k].result.output)
       /\ Len(puts[k].result.output) <= MAX_RUN_RESULT_OUTPUT_LENGTH =>
            value = puts[k].result
C24_CacheHitMiss ==
  /\ \A k \in TaskKeys : ReadsAs(getTaskResult(store, k), k)
  /\ cacheGot.asked => ReadsAs(cacheGot.value, cacheGot.key)

C24_Witness ==
  /\ cacheGot.asked
  /\ cacheGot.value # Absent
  /\ cacheGot.value = puts[cacheGot.key].result
  /\ cacheGot.key[3] = "v2"
  /\ store[<<cacheGot.key[1], TaskName, "v1">>] = Absent

\* C28: a task call hands its result to storeTaskResult once, after runPod has
\* resolved, under the task's module, name and version; when runPod rejects
\* nothing is stored and when storeTaskResult rejects the call is rejected.
C28_StoreOnceAfterRun ==
  /\ task.storeCalls <= 1
  /\ task.storeCalls = 1 => task.run = "ok"
  /\ task.run = "failed" => (task.pc = "rejected" /\ task.storeCalls = 0)
  /\ task.stored = "failed" => task.pc = "rejected"
  /\ task.stored = "ok" => task.storeCalls = 1
  /\ task.pc = "resolved" =>
       LET k == <<task.module, TaskName, task.taskVersion>> IN
       /\ task.stored = "ok"
       /\ puts[k] # Absent /\ puts[k].result = task.result
       /\ ReadsAs(store[k], k) /\ store[k] # Absent

C28_Witness ==
  /\ task.pc = "resolved"
  /\ task.module = "container"
  /\ task.taskVersion = "v2"
  /\ store[<<task.module, TaskName, "v2">>] # Absent
  /\ store[<<task.module, TaskName, "v1">>] = Absent

\* ---------------------------------------------------- claims on the log tree
\* the nodes below `node` in depth-first pre-order
RECURSIVE PreOrderBelow(_, _)
RECURSIVE PreOrderOfAll(_, _)
PreOrderOfAll(par, nodes) ==
  IF nodes = <<>> THEN <<>>
  ELSE <<Head(nodes)>> \o PreOrderBelow(par, Head(nodes))
         \o PreOrderOfAll(par, Tail(nodes))
PreOrderBelow(par, node) == PreOrderOfAll(par, ChildrenOf(par, node))
FirstMatch(order, match) ==
  IF \E i \in 1..Len(order) : order[i] \in match
  THEN order[CHOOSE i \in 1..Len(order) :
               order[i] \in match /\ \A j \in 1..(i - 1) : order[j] \notin match]
  ELSE NoNode

\* C30: findLogNode returns the first node below the given one, in depth-first
\* pre-order, that the predicate holds of (nothing when there is none), and the
\* callback is invoked on no node after it: the nodes it is invoked on are the
\* pre-order up to the match.
C30_FindFirstInPreOrder ==
  logOut.done =>
    LET order == PreOrderBelow(logTree, RootNode)
        first == FirstMatch(order, logMatch)
    IN /\ logOut.found = first
       /\ \E n \in 0..Len(order) :
            /\ logOut.calls = SubSeq(order, 1, n)
            /\ first # NoNode => order[n] = first

====
